---- MODULE Spec2Model ----
(***************************************************************************)
(* Model of the waveshare-ups-hat-e crate: the UpsHatE facade (src/lib.rs), *)
(* the register map and enum decoders (src/registers.rs) and the error     *)
(* type (src/error.rs), driven against an I2C transport that may fail or   *)
(* return a block of any length, and a UPS device whose power-off register *)
(* behaves as documented at POWEROFF_VALUE.                                *)
(***************************************************************************)
EXTENDS Integers, Sequences, FiniteSets, TLC

VARIABLES
    device,           \* the UPS power-off state: "Idle" or "Pending"
    overflow_checks,  \* build profile: TRUE = integer overflow panics (debug)
    pc,               \* caller position: "idle" (may call) or "done" (holds a result)
    op,               \* the operation last called
    reply,            \* what the transport answered to that operation
    txlog,            \* the bus transactions that operation issued, in order
    result            \* what the operation returned (or that it panicked)

vars == <<device, overflow_checks, pc, op, reply, txlog, result>>

\* ------------------------------------------------------------------ bounds

\* Longest byte block the transport is taken to return.
MaxBlockLen == 13

\* ------------------------------------------------------- machine arithmetic

RECURSIVE BitAnd(_, _)
BitAnd(a, b) ==
    IF a = 0 \/ b = 0 THEN 0
    ELSE (IF a % 2 = 1 /\ b % 2 = 1 THEN 1 ELSE 0) + 2 * BitAnd(a \div 2, b \div 2)

RECURSIVE BitOr(_, _)
BitOr(a, b) ==
    IF a = 0 THEN b
    ELSE IF b = 0 THEN a
    ELSE (IF a % 2 = 1 \/ b % 2 = 1 THEN 1 ELSE 0) + 2 * BitOr(a \div 2, b \div 2)

RECURSIVE Pow2(_)
Pow2(n) == IF n = 0 THEN 1 ELSE 2 * Pow2(n - 1)

\* x << n on an unsigned integer of the given width (8 or 16 bits)
Shl(x, n, width) == (x * Pow2(n)) % Pow2(width)

\* (b as i32) << 8 for a byte b: at most 24 bits, so nothing is shifted out
Shl8_i32(b) == b * Pow2(8)

\* `x as i16` on an i32: keep the low 16 bits, read as two's complement
AsI16(x) ==
    LET m == x % 65536
    IN  IF m >= 32768 THEN m - 65536 ELSE m

\* data[lo] as u16 | (data[hi] as u16) << 8, with 0-based indices as in the source
le_u16(data, lo, hi) == BitOr(data[lo + 1], Shl(data[hi + 1], 8, 16))

\* u16 + u16: the wrapped sum and whether it overflowed
add_u16(a, b) == [val |-> (a + b) % 65536, ovf |-> a + b > 65535]

\* ------------------------------------------------------------ registers.rs

CHARGING_REG      == [id |-> 2,  length |-> 1]
COMMUNICATION_REG == [id |-> 3,  length |-> 1]
USBC_VBUS_REG     == [id |-> 16, length |-> 6]
BATTERY_REG       == [id |-> 32, length |-> 12]
CELL_VOLTAGE_REG  == [id |-> 48, length |-> 8]
POWEROFF_REG      == [id |-> 1,  length |-> 1]

\* ------------------------------------------------------------------ lib.rs

DEFAULT_CELL_LOW_VOLTAGE_THRESHOLD == 3400
POWEROFF_VALUE == 85

\* ---------------------------------------------------------------- error.rs

Ok(v)                          == [tag |-> "Ok", val |-> v]
I2CError                       == [tag |-> "I2CError", val |-> <<>>]
InvalidDataLen(reg, want, got) == [tag |-> "InvalidDataLen", val |-> <<reg, want, got>>]
InvalidChargerActivity(v)      == [tag |-> "InvalidChargerActivity", val |-> v]
\* not an Error: the thread unwinds instead of returning
Panic(why)                     == [tag |-> "panic", val |-> why]

\* --------------------------------------------------------------- transport

ReadTx(register, length)   == [kind |-> "read",  reg |-> register, arg |-> length, ok |-> TRUE]
WriteTx(register, value, accepted) ==
    [kind |-> "write", reg |-> register, arg |-> value, ok |-> accepted]

\* A transport answer to a block read: a failure, or a block of bytes.
Fail        == [ok |-> FALSE, data |-> <<>>]
Block(data) == [ok |-> TRUE, data |-> data]

\* What smbus_read_i2c_block_data can hand back: little-endian words laid out as
\* the device lays them out, or a block of some other length.
LE(w) == <<w % 256, w \div 256>>

Filler(n, b) == [i \in 1..n |-> b]

FillBytes == {0, 85, 255}

OddBlocks(length) ==
    {Block(Filler(n, b)) : n \in (0..MaxBlockLen) \ {length}, b \in FillBytes}

ByteBlocks == {Block(<<b>>) : b \in 0..255}

CellWords == {0, 1, 3400, 3401, 65535}

CellBlocks ==
    {Block(LE(a) \o LE(b) \o LE(c) \o LE(d)) : a, b, c, d \in CellWords}

VBusWords == {0, 258, 5000, 65535}

VBusBlocks == {Block(LE(a) \o LE(b) \o LE(c)) : a, b, c \in VBusWords}

CurrentWords == {0, 1, 1000, 32767, 32768, 32769, 65534, 65535}

BatteryWords == {0, 258, 65535}

BatteryBlocks ==
    {Block(LE(v) \o LE(i) \o LE(p) \o LE(c) \o LE(rt) \o LE(tf)) :
        v \in BatteryWords, i \in CurrentWords, p \in {0, 100},
        c \in BatteryWords, rt \in BatteryWords, tf \in BatteryWords}

\* ------------------------------------------------------------- the device

\* The power-off register as documented at POWEROFF_VALUE: the device starts a
\* power-off when it accepts 0x55 written to register 0x01, and reads back 0x55
\* from that register while a power-off is pending. Reads change nothing.
DeviceAccept(dev, tx) ==
    IF tx.kind = "write" /\ tx.ok /\ tx.reg = 1 /\ tx.arg = 85 THEN "Pending" ELSE dev

RECURSIVE DeviceAfter(_, _)
DeviceAfter(dev, txs) ==
    IF txs = <<>> THEN dev ELSE DeviceAfter(DeviceAccept(dev, Head(txs)), Tail(txs))

DevicePoweroffBytes(dev) == IF dev = "Pending" THEN {85} ELSE (0..255) \ {85}

PoweroffBlocks(dev) == {Block(<<b>>) : b \in DevicePoweroffBytes(dev)}

\* ------------------------------------------------------------ registers.rs

\* try_from without the 0b110 arm
ChargerActivity_try_from_no_timeout(value) ==
    CASE value = 0 -> Ok("Standby")
      [] value = 1 -> Ok("Trickle")
      [] value = 2 -> Ok("ConstantCurrent")
      [] value = 3 -> Ok("ConstantVoltage")
      [] value = 4 -> Ok("Pending")
      [] value = 5 -> Ok("Full")
      [] OTHER     -> InvalidChargerActivity(value)

ChargerActivity_try_from(value) ==
    CASE value = 0 -> Ok("Standby")
      [] value = 1 -> Ok("Trickle")
      [] value = 2 -> Ok("ConstantCurrent")
      [] value = 3 -> Ok("ConstantVoltage")
      [] value = 4 -> Ok("Pending")
      [] value = 5 -> Ok("Full")
      [] value = 6 -> Ok("Timeout")
      [] OTHER     -> InvalidChargerActivity(value)

CommState_from(value)         == IF value THEN "Normal" ELSE "Error"
UsbCInputState_from(value)    == IF value THEN "Powered" ELSE "NoPower"
UsbCPowerDelivery_from(value) == IF value THEN "FastCharging" ELSE "StandardCharging"
ChargingState_from(value)     == IF value THEN "Charging" ELSE "NotCharging"

\* ------------------------------------------------------------------ lib.rs

\* Every operation below yields [tx, res]: the bus transactions it issued and what
\* it returned. `r` is the transport's answer to its block read.

\* data[i] panics when i is past the end of the Vec
OutOfBounds(data, last) == Len(data) <= last

\* read_block with `<` for `!=`: a block longer than asked for gets through
read_block_accepts_longer(register, length, r) ==
    [tx  |-> <<ReadTx(register, length)>>,
     res |-> IF ~r.ok THEN I2CError
             ELSE IF Len(r.data) < length
                  THEN InvalidDataLen(register, length, Len(r.data))
                  ELSE Ok(r.data)]

\* read_block reading once more after a transport error or a wrong-length block
read_block_retry(register, length, r) ==
    [tx  |-> IF r.ok /\ Len(r.data) = length
             THEN <<ReadTx(register, length)>>
             ELSE <<ReadTx(register, length), ReadTx(register, length)>>,
     res |-> IF ~r.ok THEN I2CError
             ELSE IF Len(r.data) # length
                  THEN InvalidDataLen(register, length, Len(r.data))
                  ELSE Ok(r.data)]

read_block(register, length, r) ==
    [tx  |-> <<ReadTx(register, length)>>,
     res |-> IF ~r.ok THEN I2CError
             ELSE IF Len(r.data) # length
                  THEN InvalidDataLen(register, length, Len(r.data))
                  ELSE Ok(r.data)]

cell_voltage_of(data) ==
    IF OutOfBounds(data, 7) THEN Panic("index out of bounds")
    ELSE Ok([cell_1_millivolts |-> le_u16(data, 0, 1),
             cell_2_millivolts |-> le_u16(data, 2, 3),
             cell_3_millivolts |-> le_u16(data, 4, 5),
             cell_4_millivolts |-> le_u16(data, 6, 7)])

get_cell_voltage(r) ==
    LET rb == read_block(CELL_VOLTAGE_REG.id, CELL_VOLTAGE_REG.length, r)
    IN  IF rb.res.tag # "Ok" THEN rb
        ELSE [tx |-> rb.tx, res |-> cell_voltage_of(rb.res.val)]

usbc_vbus_of(data) ==
    IF OutOfBounds(data, 5) THEN Panic("index out of bounds")
    ELSE Ok([millivolts |-> le_u16(data, 0, 1),
             milliamps  |-> le_u16(data, 2, 3),
             milliwatts |-> le_u16(data, 4, 5)])

get_usbc_vbus(r) ==
    LET rb == read_block(USBC_VBUS_REG.id, USBC_VBUS_REG.length, r)
    IN  IF rb.res.tag # "Ok" THEN rb
        ELSE [tx |-> rb.tx, res |-> usbc_vbus_of(rb.res.val)]

\* milliamps with the standard two's complement rule (subtract 0x10000)
milliamps_of_twos_complement(data) ==
    LET current == BitOr(data[3], Shl8_i32(data[4]))
    IN  AsI16(IF current > 32767 THEN current - 65536 ELSE current)

\* let milliamps: i16 = { ... }: the reference code's sign treatment, in i32
milliamps_of(data) ==
    LET current == BitOr(data[3], Shl8_i32(data[4]))
    IN  AsI16(IF current > 32767 THEN current - 65535 ELSE current)

\* the tail with `<=` for `<`: a current of 0 counts as discharging
battery_tail_nonpositive(milliamps, data) ==
    IF milliamps <= 0
    THEN [remaining_runtime_minutes |-> le_u16(data, 8, 9),
          time_to_full_minutes      |-> 0]
    ELSE [remaining_runtime_minutes |-> 0,
          time_to_full_minutes      |-> le_u16(data, 10, 11)]

\* the two tail fields, both 0 until the sign of the current picks one
battery_tail(milliamps, data) ==
    IF milliamps < 0
    THEN [remaining_runtime_minutes |-> le_u16(data, 8, 9),
          time_to_full_minutes      |-> 0]
    ELSE [remaining_runtime_minutes |-> 0,
          time_to_full_minutes      |-> le_u16(data, 10, 11)]

battery_state_of(data) ==
    IF OutOfBounds(data, 11) THEN Panic("index out of bounds")
    ELSE LET milliamps == milliamps_of(data)
             tail      == battery_tail(milliamps, data)
         IN  Ok([millivolts                       |-> le_u16(data, 0, 1),
                 milliamps                        |-> milliamps,
                 remaining_percent                |-> le_u16(data, 4, 5),
                 remaining_capacity_milliamphours |-> le_u16(data, 6, 7),
                 remaining_runtime_minutes        |-> tail.remaining_runtime_minutes,
                 time_to_full_minutes             |-> tail.time_to_full_minutes])

get_battery_state(r) ==
    LET rb == read_block(BATTERY_REG.id, BATTERY_REG.length, r)
    IN  IF rb.res.tag # "Ok" THEN rb
        ELSE [tx |-> rb.tx, res |-> battery_state_of(rb.res.val)]

\* try_from handed the whole status byte
charger_activity_bits_raw(byte) == byte

\* the value handed to ChargerActivity::try_from
charger_activity_bits(byte) == BitAnd(byte, 7)

power_state_of(data) ==
    IF OutOfBounds(data, 0) THEN Panic("index out of bounds")
    ELSE LET byte             == data[1]
             charger_activity == ChargerActivity_try_from(charger_activity_bits(byte))
         IN  IF charger_activity.tag # "Ok" THEN charger_activity
             ELSE Ok([charging_state      |->
                          ChargingState_from(BitAnd(byte, Shl(1, 7, 8)) # 0),
                      charger_activity    |-> charger_activity.val,
                      usbc_input_state    |->
                          UsbCInputState_from(BitAnd(byte, Shl(1, 5, 8)) # 0),
                      usbc_power_delivery |->
                          UsbCPowerDelivery_from(BitAnd(byte, Shl(1, 6, 8)) # 0)])

get_power_state(r) ==
    LET rb == read_block(CHARGING_REG.id, CHARGING_REG.length, r)
    IN  IF rb.res.tag # "Ok" THEN rb
        ELSE [tx |-> rb.tx, res |-> power_state_of(rb.res.val)]

communication_state_of(data) ==
    IF OutOfBounds(data, 0) THEN Panic("index out of bounds")
    ELSE LET byte == data[1]
         IN  Ok([bq4050 |-> CommState_from(BitAnd(byte, Shl(1, 1, 8)) # 0),
                 ip2368 |-> CommState_from(BitAnd(byte, Shl(1, 0, 8)) # 0)])

get_communication_state(r) ==
    LET rb == read_block(COMMUNICATION_REG.id, COMMUNICATION_REG.length, r)
    IN  IF rb.res.tag # "Ok" THEN rb
        ELSE [tx |-> rb.tx, res |-> communication_state_of(rb.res.val)]

CUTOFF == 4 * DEFAULT_CELL_LOW_VOLTAGE_THRESHOLD

\* (cell_1 + cell_2 + cell_3 + cell_4) as u32: the three additions are u16
\* additions, left to right, and only their result is widened. An addition that
\* overflows panics in a build with overflow checks and wraps in one without.
total_voltage_of(cells, checked) ==
    LET s1 == add_u16(cells.cell_1_millivolts, cells.cell_2_millivolts)
        s2 == add_u16(s1.val, cells.cell_3_millivolts)
        s3 == add_u16(s2.val, cells.cell_4_millivolts)
    IN  IF checked /\ (s1.ovf \/ s2.ovf \/ s3.ovf)
        THEN Panic("attempt to add with overflow")
        ELSE Ok(s3.val)

is_battery_low(r, checked) ==
    LET cv == get_cell_voltage(r)
    IN  IF cv.res.tag # "Ok" THEN cv
        ELSE LET total_voltage == total_voltage_of(cv.res.val, checked)
             IN  [tx  |-> cv.tx,
                  res |-> IF total_voltage.tag # "Ok" THEN total_voltage
                          ELSE Ok(total_voltage.val <= CUTOFF)]

\* force_power_off with the two arguments of the write swapped
force_power_off_swapped(accepted) ==
    [tx  |-> <<WriteTx(POWEROFF_VALUE, POWEROFF_REG.id, accepted)>>,
     res |-> IF accepted THEN Ok(<<>>) ELSE I2CError]

\* `accepted`: whether smbus_write_byte_data went through
force_power_off(accepted) ==
    [tx  |-> <<WriteTx(POWEROFF_REG.id, POWEROFF_VALUE, accepted)>>,
     res |-> IF accepted THEN Ok(<<>>) ELSE I2CError]

\* the status byte tested for being nonzero instead of being the sentinel
power_off_pending_of_nonzero(data) ==
    IF OutOfBounds(data, 0) THEN Panic("index out of bounds")
    ELSE Ok(data[1] # 0)

\* the status byte compared with the register id instead of the sentinel
power_off_pending_of_register_id(data) ==
    IF OutOfBounds(data, 0) THEN Panic("index out of bounds")
    ELSE Ok(data[1] = POWEROFF_REG.id)

power_off_pending_of(data) ==
    IF OutOfBounds(data, 0) THEN Panic("index out of bounds")
    ELSE Ok(data[1] = POWEROFF_VALUE)

is_power_off_pending(r) ==
    LET rb == read_block(POWEROFF_REG.id, POWEROFF_REG.length, r)
    IN  IF rb.res.tag # "Ok" THEN rb
        ELSE [tx |-> rb.tx, res |-> power_off_pending_of(rb.res.val)]

\* ------------------------------------------------------------ state machine

Init ==
    /\ device = "Idle"
    /\ overflow_checks \in BOOLEAN
    /\ pc = "idle"
    /\ op = "none"
    /\ reply = Fail
    /\ txlog = <<>>
    /\ result = Ok(<<>>)

\* One call of a public operation, start to return: the transactions it issued
\* reach the device, and the caller holds what it returned.
Completes(name, r, out) ==
    /\ op' = name
    /\ reply' = r
    /\ txlog' = out.tx
    /\ result' = out.res
    /\ device' = DeviceAfter(device, out.tx)
    /\ pc' = IF out.res.tag = "panic" THEN "panicked" ELSE "done"
    /\ UNCHANGED overflow_checks

GetCellVoltage ==
    /\ pc = "idle"
    /\ \E r \in {Fail} \cup CellBlocks \cup OddBlocks(8) :
            Completes("get_cell_voltage", r, get_cell_voltage(r))

GetUsbcVbus ==
    /\ pc = "idle"
    /\ \E r \in {Fail} \cup VBusBlocks \cup OddBlocks(6) :
            Completes("get_usbc_vbus", r, get_usbc_vbus(r))

GetBatteryState ==
    /\ pc = "idle"
    /\ \E r \in {Fail} \cup BatteryBlocks \cup OddBlocks(12) :
            Completes("get_battery_state", r, get_battery_state(r))

GetPowerState ==
    /\ pc = "idle"
    /\ \E r \in {Fail} \cup ByteBlocks \cup OddBlocks(1) :
            Completes("get_power_state", r, get_power_state(r))

GetCommunicationState ==
    /\ pc = "idle"
    /\ \E r \in {Fail} \cup ByteBlocks \cup OddBlocks(1) :
            Completes("get_communication_state", r, get_communication_state(r))

IsBatteryLow ==
    /\ pc = "idle"
    /\ \E r \in {Fail} \cup CellBlocks \cup OddBlocks(8) :
            Completes("is_battery_low", r, is_battery_low(r, overflow_checks))

ForcePowerOff ==
    /\ pc = "idle"
    /\ \E accepted \in BOOLEAN :
            Completes("force_power_off", IF accepted THEN Block(<<>>) ELSE Fail,
                      force_power_off(accepted))

IsPowerOffPending ==
    /\ pc = "idle"
    /\ \E r \in {Fail} \cup PoweroffBlocks(device) \cup OddBlocks(1) :
            Completes("is_power_off_pending", r, is_power_off_pending(r))

\* The caller is done with the result and is free to call again.
Return ==
    /\ pc = "done"
    /\ pc' = "idle"
    /\ op' = "none"
    /\ reply' = Fail
    /\ txlog' = <<>>
    /\ result' = Ok(<<>>)
    /\ UNCHANGED <<device, overflow_checks>>

Next ==
    \/ GetCellVoltage
    \/ GetUsbcVbus
    \/ GetBatteryState
    \/ GetPowerState
    \/ GetCommunicationState
    \/ IsBatteryLow
    \/ ForcePowerOff
    \/ IsPowerOffPending
    \/ Return

Spec == Init /\ [][Next]_vars

\* ------------------------------------------------------------------ claims

\* The register each reading operation reads, as <<address, fixed length>>.
RegisterOf(name) ==
    CASE name = "is_power_off_pending"    -> <<1, 1>>
      [] name = "get_power_state"         -> <<2, 1>>
      [] name = "get_communication_state" -> <<3, 1>>
      [] name = "get_usbc_vbus"           -> <<16, 6>>
      [] name = "get_battery_state"       -> <<32, 12>>
      [] name = "get_cell_voltage"        -> <<48, 8>>
      [] name = "is_battery_low"          -> <<48, 8>>

ReadOps == {"is_power_off_pending", "get_power_state", "get_communication_state",
            "get_usbc_vbus", "get_battery_state", "get_cell_voltage",
            "is_battery_low"}

\* the 16-bit little-endian value at 0-based offset `at` of the block on the wire
WireWord(at) == reply.data[at + 1] + 256 * reply.data[at + 2]

\* C1: whenever the transport returns a block whose length differs from the
\* register's fixed length, shorter or longer, the operation returns
\* InvalidDataLen carrying exactly (register address, expected length, actual
\* length), and nothing else: no decoded record.
C1_LengthMismatch ==
    (op \in ReadOps /\ reply.ok /\ Len(reply.data) # RegisterOf(op)[2])
        => /\ result.tag = "InvalidDataLen"
           /\ result.val = <<RegisterOf(op)[1], RegisterOf(op)[2], Len(reply.data)>>

\* C1 witness: a 13-byte answer to the 12-byte battery read was refused.
C1_Witness ==
    /\ op = "get_battery_state"
    /\ reply.ok
    /\ Len(reply.data) = 13
    /\ result.tag = "InvalidDataLen"
    /\ result.val = <<32, 12, 13>>

\* C2: the device goes from Idle to Pending only in a step in which
\* force_power_off returned Ok; once Pending it never returns to Idle; and while
\* it is Pending every successful is_power_off_pending returns true.
C2_PowerOffStateMachine ==
    /\ [][(device = "Idle" /\ device' = "Pending")
            => (op' = "force_power_off" /\ result'.tag = "Ok")]_vars
    /\ [][device = "Pending" => device' = "Pending"]_vars
    /\ []((device = "Pending" /\ op = "is_power_off_pending" /\ result.tag = "Ok")
            => result.val = TRUE)

\* C2 witness: a pending power-off was read back as pending.
C2_Witness ==
    /\ device = "Pending"
    /\ op = "is_power_off_pending"
    /\ result.tag = "Ok"
    /\ result.val = TRUE

\* C3: every call of a public operation issues exactly one bus transaction,
\* also when that transaction fails or returns a block of the wrong length.
C3_OneTransactionPerCall ==
    op # "none" => Len(txlog) = 1

\* C3 witness: a read that failed in the transport was not repeated.
C3_Witness ==
    /\ op = "get_power_state"
    /\ result.tag = "I2CError"
    /\ txlog = <<[kind |-> "read", reg |-> 2, arg |-> 1, ok |-> TRUE]>>

\* C4 (as claimed): for every 8-byte cell-voltage block, is_battery_low returns
\* Ok(true) exactly when the mathematical sum of the four readings is at most
\* 13600, and Ok(false) otherwise, also when the sum exceeds 65535.
C4_LowIffSumAtMostCutoff ==
    (op = "is_battery_low" /\ reply.ok /\ Len(reply.data) = 8)
        => /\ result.tag = "Ok"
           /\ result.val = (WireWord(0) + WireWord(2) + WireWord(4) + WireWord(6)
                                <= 13600)

\* C5 (as claimed): no operation panics, whatever the transport returns.
C5_NoPanic ==
    result.tag # "panic"

\* C6: for every 12-byte battery block with raw = byte[2] + 256 * byte[3], the
\* decoded current is raw when raw <= 0x7FFF and raw - 0xFFFF otherwise; it
\* lies in -32767..32767, so -32768 is never produced.
C6_CurrentSignRule ==
    (op = "get_battery_state" /\ result.tag = "Ok")
        => /\ result.val.milliamps =
                  (IF WireWord(2) <= 32767 THEN WireWord(2) ELSE WireWord(2) - 65535)
           /\ result.val.milliamps \in -32767..32767

\* C6 witness: raw 0x8000 was decoded to -32767.
C6_Witness ==
    /\ op = "get_battery_state"
    /\ result.tag = "Ok"
    /\ WireWord(2) = 32768
    /\ result.val.milliamps = -32767

\* C7: for every 12-byte battery block, a decoded current below 0 gives
\* remaining_runtime_minutes the wire value at offset 8 and time_to_full_minutes
\* 0; a decoded current of 0 or more gives time_to_full_minutes the wire value
\* at offset 10 and remaining_runtime_minutes 0.
C7_ConditionalTail ==
    (op = "get_battery_state" /\ result.tag = "Ok")
        => IF result.val.milliamps < 0
           THEN /\ result.val.remaining_runtime_minutes = WireWord(8)
                /\ result.val.time_to_full_minutes = 0
           ELSE /\ result.val.time_to_full_minutes = WireWord(10)
                /\ result.val.remaining_runtime_minutes = 0

\* C7 witness: a current of 0 took time-to-full from the wire and zeroed a
\* runtime that was nonzero on the wire.
C7_Witness ==
    /\ op = "get_battery_state"
    /\ result.tag = "Ok"
    /\ result.val.milliamps = 0
    /\ WireWord(8) = 258
    /\ WireWord(10) = 65535
    /\ result.val.time_to_full_minutes = 65535
    /\ result.val.remaining_runtime_minutes = 0

ActivityTable ==
    <<"Standby", "Trickle", "ConstantCurrent", "ConstantVoltage", "Pending", "Full",
      "Timeout">>

\* bit n of the status byte on the wire
WireBit(n) == (reply.data[1] \div Pow2(n)) % 2 = 1

\* C8: for each of the 256 status bytes, get_power_state succeeds exactly when
\* bits 0-2 are not 0b111, and then charger activity is the table entry for bits
\* 0-2, USB-C input is Powered iff bit 5, power delivery is FastCharging iff bit
\* 6, charging state is Charging iff bit 7; bits 3 and 4 play no part.
C8_ChargingStatusDecode ==
    (op = "get_power_state" /\ reply.ok /\ Len(reply.data) = 1)
        => IF reply.data[1] % 8 = 7
           THEN result.tag # "Ok"
           ELSE /\ result.tag = "Ok"
                /\ result.val =
                       [charging_state      |->
                            IF WireBit(7) THEN "Charging" ELSE "NotCharging",
                        charger_activity    |-> ActivityTable[(reply.data[1] % 8) + 1],
                        usbc_input_state    |->
                            IF WireBit(5) THEN "Powered" ELSE "NoPower",
                        usbc_power_delivery |->
                            IF WireBit(6) THEN "FastCharging" ELSE "StandardCharging"]

\* C8 witness: 0xBE (bits 7, 5, 4, 3 set, activity 0b110) decoded to Charging,
\* Timeout, Powered, StandardCharging.
C8_Witness ==
    /\ op = "get_power_state"
    /\ reply = [ok |-> TRUE, data |-> <<190>>]
    /\ result.tag = "Ok"
    /\ result.val.charger_activity = "Timeout"
    /\ result.val.charging_state = "Charging"
    /\ result.val.usbc_input_state = "Powered"
    /\ result.val.usbc_power_delivery = "StandardCharging"

\* C9 (as claimed): for every status byte whose bits 0-2 are 0b111,
\* get_power_state fails with InvalidChargerActivity carrying the status byte as
\* read from the register.
C9_CarriesRawByte ==
    (op = "get_power_state" /\ reply.ok /\ Len(reply.data) = 1
        /\ reply.data[1] % 8 = 7)
        => /\ result.tag = "InvalidChargerActivity"
           /\ result.val = reply.data[1]

\* C9 (amended): for every status byte whose bits 0-2 are 0b111, get_power_state
\* fails with InvalidChargerActivity carrying the masked activity code, byte &
\* 0b111, which is 7 whatever the other bits are.
C9_CarriesMaskedCode ==
    (op = "get_power_state" /\ reply.ok /\ Len(reply.data) = 1
        /\ reply.data[1] % 8 = 7)
        => /\ result.tag = "InvalidChargerActivity"
           /\ result.val = 7

\* C9 witness: status byte 0x87 failed with InvalidChargerActivity(7).
C9_Witness ==
    /\ op = "get_power_state"
    /\ reply = [ok |-> TRUE, data |-> <<135>>]
    /\ result.tag = "InvalidChargerActivity"
    /\ result.val = 7

\* C10: every write transaction is (address 0x01, value 0x55) and comes from
\* force_power_off; every other operation issues reads only, and a step of any
\* other operation leaves the device as it was.
C10_OnlySentinelWrite ==
    /\ [](\A i \in 1..Len(txlog) :
            IF op = "force_power_off"
            THEN txlog[i].kind = "write" /\ txlog[i].reg = 1 /\ txlog[i].arg = 85
            ELSE txlog[i].kind = "read")
    /\ [][op' # "force_power_off" => device' = device]_vars

\* C10 witness: force_power_off wrote 0x55 to 0x01 and the device took it.
C10_Witness ==
    /\ op = "force_power_off"
    /\ txlog = <<[kind |-> "write", reg |-> 1, arg |-> 85, ok |-> TRUE]>>
    /\ result.tag = "Ok"
    /\ device = "Pending"

\* C11: is_power_off_pending issues one read of 1 byte from register 0x01, and
\* for every byte 0..255 that read returns, the result is Ok(true) when the byte
\* is 0x55 and Ok(false) when it is any other byte.
C11_PendingIffSentinel ==
    (op = "is_power_off_pending" /\ reply.ok /\ Len(reply.data) = 1)
        => /\ txlog = <<[kind |-> "read", reg |-> 1, arg |-> 1, ok |-> TRUE]>>
           /\ result.tag = "Ok"
           /\ result.val = (reply.data[1] = 85)

\* C11 witness: after an accepted force_power_off, the read of register 0x01
\* returned 0x55 and is_power_off_pending reported true.
C11_Witness ==
    /\ device = "Pending"
    /\ op = "is_power_off_pending"
    /\ reply = [ok |-> TRUE, data |-> <<85>>]
    /\ txlog = <<[kind |-> "read", reg |-> 1, arg |-> 1, ok |-> TRUE]>>
    /\ result.tag = "Ok"
    /\ result.val = TRUE

====
